---- MODULE Spec2Model ----
(***************************************************************************)
(* Triage decision engine of the symptom-check route:                      *)
(*   POST /api/consultations/symptom-check  (route handler)                *)
(*   analyzeSymptoms, detectEmergency        (src/lib/ai.ts)               *)
(*   containsEmergencyKeywords               (src/utils/helpers.ts)        *)
(* Texts are TLA+ strings handled character by character, so toLowerCase,  *)
(* includes, JSON.parse and the regular expressions are computed the way   *)
(* the code computes them.  Numbers are fixed point with one decimal       *)
(* digit (riskScore 8.5 is 85).                                            *)
(***************************************************************************)
EXTENDS Integers, Sequences, FiniteSets, TLC

\* ------------------------------------------------------------------ strings
Min(a, b) == IF a <= b THEN a ELSE b
Max(a, b) == IF a >= b THEN a ELSE b

\* the character at position i (1-based), "" outside the string
At(s, i) == IF i >= 1 /\ i <= Len(s) THEN SubSeq(s, i, i) ELSE ""

UpperChars == "ABCDEFGHIJKLMNOPQRSTUVWXYZ"
LowerChars == "abcdefghijklmnopqrstuvwxyz"
Digits == "0123456789"

CharsOf(chars) == { At(chars, i) : i \in 1..Len(chars) }
IndexIn(c, chars) == CHOOSE i \in 1..Len(chars) : At(chars, i) = c

DigitSet == CharsOf(Digits)
SpaceSet == {" ", "\n", "\t", "\r"}
WordCharSet == CharsOf(UpperChars) \cup CharsOf(LowerChars) \cup DigitSet \cup {"_"}
LowerOf == [c \in CharsOf(UpperChars) |-> At(LowerChars, IndexIn(c, UpperChars))]
UpperOf == [c \in CharsOf(LowerChars) |-> At(UpperChars, IndexIn(c, LowerChars))]
DigitOf == [c \in DigitSet |-> IndexIn(c, Digits) - 1]

IsDigit(c) == c \in DigitSet
IsSpace(c) == c \in SpaceSet
\* \w of a JavaScript regular expression
IsWordChar(c) == c \in WordCharSet

toLowerCaseChar(c) == IF c \in DOMAIN LowerOf THEN LowerOf[c] ELSE c
toUpperCaseChar(c) == IF c \in DOMAIN UpperOf THEN UpperOf[c] ELSE c

\* body applied to a value that is computed once (a local const of the code)
With(value, body(_)) == body(value)

\* the first index in i..n where P holds, 0 when there is none
FirstIndex(P(_), i, n) ==
  IF \E j \in i..n : P(j)
  THEN CHOOSE j \in i..n : P(j) /\ \A k \in i..(j - 1) : ~P(k)
  ELSE 0

\* the last index in i..n where P holds, 0 when there is none
LastIndex(P(_), i, n) ==
  IF \E j \in i..n : P(j)
  THEN CHOOSE j \in i..n : P(j) /\ \A k \in (j + 1)..n : ~P(k)
  ELSE 0

\* String.prototype.toLowerCase, character by character (by halves)
RECURSIVE toLowerCase(_)
toLowerCase(s) ==
  IF Len(s) <= 1 THEN toLowerCaseChar(s)
  ELSE LET h == Len(s) \div 2
       IN toLowerCase(SubSeq(s, 1, h)) \o toLowerCase(SubSeq(s, h + 1, Len(s)))

RECURSIVE toUpperCase(_)
toUpperCase(s) ==
  IF Len(s) <= 1 THEN toUpperCaseChar(s)
  ELSE LET h == Len(s) \div 2
       IN toUpperCase(SubSeq(s, 1, h)) \o toUpperCase(SubSeq(s, h + 1, Len(s)))

\* s has k at position i (1-based)
HasAt(s, i, k) == i >= 1 /\ i + Len(k) - 1 <= Len(s) /\ SubSeq(s, i, i + Len(k) - 1) = k

\* String.prototype.includes
includes(s, k) == \E i \in 1..(Len(s) + 1) : HasAt(s, i, k)

\* String.prototype.trim
trim(s) ==
  With(FirstIndex(LAMBDA j : ~IsSpace(At(s, j)), 1, Len(s)),
       LAMBDA a : IF a = 0 THEN ""
                  ELSE SubSeq(s, a, LastIndex(LAMBDA j : ~IsSpace(At(s, j)), a, Len(s))))

\* Array.prototype.slice(0, n)
slice(a, n) == SubSeq(a, 1, Min(n, Len(a)))

\* --------------------------------------------------- containsEmergencyKeywords
emergencyKeywords ==
  [EN |-> << "chest pain", "heart attack", "stroke", "unconscious", "bleeding",
              "difficulty breathing", "severe injury", "emergency", "urgent",
              "can't breathe", "fainting", "seizure" >>,
   BN |-> << "বুকে ব্যথা", "হার্ট অ্যাটাক", "স্ট্রোক", "অজ্ঞান", "রক্তক্ষরণ",
              "শ্বাসকষ্ট", "গুরুতর আঘাত", "জরুরি", "শ্বাস নিতে পারছি না",
              "চেতনা হারানো", "খিঁচুনি" >>]

\* faulty variant: every keyword is required
containsEmergencyKeywords_every(text, language) ==
  \A i \in 1..Len(emergencyKeywords[language]) :
     includes(toLowerCase(text), toLowerCase(emergencyKeywords[language][i]))

containsEmergencyKeywords(text, language) ==
  LET textLower == toLowerCase(text)
      list == emergencyKeywords[language]
  IN \E i \in 1..Len(list) : includes(textLower, toLowerCase(list[i]))

\* the call as a whole: for a tag that is no key of emergencyKeywords,
\* emergencyKeywords[language] is undefined and undefined.some throws a TypeError
callContainsEmergencyKeywords(text, language) ==
  IF language \in DOMAIN emergencyKeywords
  THEN [threw |-> FALSE, value |-> containsEmergencyKeywords(text, language)]
  ELSE [threw |-> TRUE, value |-> FALSE]

\* ----------------------------------------------------------------- JSON
\* JavaScript values as they come out of JSON.parse
JUndef == [ty |-> "undefined"]
JNull == [ty |-> "null"]
JBool(b) == [ty |-> "boolean", b |-> b]
JNum(n) == [ty |-> "number", n |-> n]
JStr(s) == [ty |-> "string", s |-> s]
JArr(a) == [ty |-> "array", a |-> a]
JObj(o) == [ty |-> "object", o |-> o]

ParseFail == [ok |-> FALSE, v |-> JUndef, i |-> 0]
ParseOk(v, i) == [ok |-> TRUE, v |-> v, i |-> i]

\* the first position from i on that holds no white space
skipWs(s, i) ==
  IF i > Len(s) THEN i ELSE FirstIndex(LAMBDA j : ~IsSpace(At(s, j)), i, Len(s) + 1)

\* the quote that closes the string literal whose content starts at j, 0 when
\* the literal is not closed or holds an escape or a line break
closingQuote(s, j) ==
  With(FirstIndex(LAMBDA x : At(s, x) \in {"\"", "\\", "\n"}, j, Len(s)),
       LAMBDA k : IF k > 0 /\ At(s, k) = "\"" THEN k ELSE 0)

\* a string literal without escape sequences
parseString(s, i) ==
  With(closingQuote(s, i + 1),
       LAMBDA j : IF At(s, i) = "\"" /\ j > 0
                  THEN ParseOk(JStr(SubSeq(s, i + 1, j - 1)), j + 1) ELSE ParseFail)

\* the first position from i on that holds no digit
digitsEnd(s, i) ==
  IF i > Len(s) THEN i ELSE FirstIndex(LAMBDA j : ~IsDigit(At(s, j)), i, Len(s) + 1)

RECURSIVE digitsValue(_)
digitsValue(d) ==
  IF d = "" THEN 0 ELSE 10 * digitsValue(SubSeq(d, 1, Len(d) - 1)) + DigitOf[At(d, Len(d))]

\* digits(.digit)? from b to before fe, the integer part ending before e; the
\* value is kept in tenths
numberOf(s, b, e, fe, sign) ==
  IF e = b \/ (fe # e /\ fe # e + 2) \/ (e > b + 1 /\ At(s, b) = "0") THEN ParseFail
  ELSE ParseOk(JNum(sign * (10 * digitsValue(SubSeq(s, b, e - 1))
                              + digitsValue(SubSeq(s, e + 1, fe - 1)))), fe)

\* -?digits(.digit)?
parseNumber(s, i) ==
  With(IF At(s, i) = "-" THEN i + 1 ELSE i,
       LAMBDA b :
         With(digitsEnd(s, b),
              LAMBDA e : numberOf(s, b, e,
                                  IF At(s, e) = "." THEN digitsEnd(s, e + 1) ELSE e,
                                  IF b = i THEN 1 ELSE -1)))

\* what a parse that read up to before i gives when close (that the character c
\* at i is the closing one) is required
closed(close, v, i) == IF close THEN ParseOk(v, i + 1) ELSE ParseFail

\* a value, the elements of an array (kind "[", after the bracket or a comma),
\* the members of an object (kind "{") or the value of the member acc.key;
\* acc holds what was read so far
RECURSIVE parse(_, _, _, _)
parse(kind, s, i, acc) ==
  CASE kind = "value" ->
         With(At(s, i),
              LAMBDA c :
                CASE c = "{" \/ c = "[" ->
                       With(skipWs(s, i + 1),
                            LAMBDA j :
                              IF c = "{" /\ At(s, j) = "}" THEN ParseOk(JObj(<< >>), j + 1)
                              ELSE IF c = "[" /\ At(s, j) = "]" THEN ParseOk(JArr(<< >>), j + 1)
                              ELSE parse(c, s, j, << >>))
                  [] c = "\"" -> parseString(s, i)
                  [] c = "-" \/ IsDigit(c) -> parseNumber(s, i)
                  [] c = "t" -> closed(HasAt(s, i, "true"), JBool(TRUE), i + 3)
                  [] c = "f" -> closed(HasAt(s, i, "false"), JBool(FALSE), i + 4)
                  [] c = "n" -> closed(HasAt(s, i, "null"), JNull, i + 3)
                  [] OTHER -> ParseFail)
    [] kind = "[" ->
         With(parse("value", s, i, << >>),
              LAMBDA r :
                With(skipWs(s, r.i),
                     LAMBDA k :
                       IF ~r.ok THEN ParseFail
                       ELSE IF At(s, k) = ","
                       THEN parse("[", s, skipWs(s, k + 1), Append(acc, r.v))
                       ELSE closed(At(s, k) = "]", JArr(Append(acc, r.v)), k)))
    [] kind = "{" ->
         With(parseString(s, i),
              LAMBDA key :
                With(skipWs(s, key.i),
                     LAMBDA c :
                       IF ~key.ok \/ At(s, c) # ":" THEN ParseFail
                       ELSE parse("member", s, skipWs(s, c + 1),
                                  [key |-> key.v.s, o |-> acc])))
    [] kind = "member" ->
         With(parse("value", s, i, << >>),
              LAMBDA r :
                With(skipWs(s, r.i),
                     LAMBDA k :
                       With([p \in (DOMAIN acc.o) \cup {acc.key} |->
                               IF p = acc.key THEN r.v ELSE acc.o[p]],
                            LAMBDA o :
                              IF ~r.ok THEN ParseFail
                              ELSE IF At(s, k) = ","
                              THEN parse("{", s, skipWs(s, k + 1), o)
                              ELSE closed(At(s, k) = "}", JObj(o), k))))

\* JSON.parse: ok = FALSE stands for the SyntaxError it throws
JSONparse(text) ==
  With(parse("value", text, skipWs(text, 1), << >>),
       LAMBDA r : IF r.ok /\ skipWs(text, r.i) = Len(text) + 1 THEN [ok |-> TRUE, v |-> r.v]
                  ELSE [ok |-> FALSE, v |-> JUndef])

RECURSIVE natToString(_)
natToString(n) ==
  IF n < 10 THEN At(Digits, n + 1) ELSE natToString(n \div 10) \o At(Digits, (n % 10) + 1)

numToString(n) ==
  LET mag == IF n < 0 THEN 0 - n ELSE n
  IN (IF n < 0 THEN "-" ELSE "") \o natToString(mag \div 10)
       \o (IF mag % 10 = 0 THEN "" ELSE "." \o natToString(mag % 10))

\* JSON.stringify; an object to serialise is the sequence of its <<key, value>>
\* pairs in insertion order
RECURSIVE JSONstringify(_), stringifyList(_, _)
JSONstringify(v) ==
  CASE v.ty = "string" -> "\"" \o v.s \o "\""
    [] v.ty = "number" -> numToString(v.n)
    [] v.ty = "boolean" -> IF v.b THEN "true" ELSE "false"
    [] v.ty = "array" -> "[" \o stringifyList(v.a, FALSE) \o "]"
    [] v.ty = "pairs" -> "{" \o stringifyList(v.p, TRUE) \o "}"
    [] OTHER -> "null"

stringifyList(a, isPairs) ==
  IF a = << >> THEN ""
  ELSE (IF isPairs THEN "\"" \o a[1][1] \o "\":" \o JSONstringify(a[1][2]) ELSE JSONstringify(a[1]))
         \o (IF Len(a) > 1 THEN "," ELSE "") \o stringifyList(Tail(a), isPairs)

JPairs(p) == [ty |-> "pairs", p |-> p]
JStrs(a) == JArr([i \in 1..Len(a) |-> JStr(a[i])])

\* JavaScript truthiness
Truthy(v) ==
  ~ \/ v.ty \in {"undefined", "null"}
    \/ (v.ty = "boolean" /\ ~v.b)
    \/ (v.ty = "number" /\ v.n = 0)
    \/ (v.ty = "string" /\ v.s = "")

\* property read v[key] of a value that is neither null nor undefined
Get(v, key) == IF v.ty = "object" /\ key \in DOMAIN v.o THEN v.o[key] ELSE JUndef

\* ------------------------------------------------- regular expressions
\* a literal pattern in which "." stands for any character but a line break
PatAt(s, i, pat) ==
  /\ i >= 1
  /\ i + Len(pat) - 1 <= Len(s)
  /\ \A j \in 1..Len(pat) :
        \/ (At(pat, j) = "." /\ At(s, i + j - 1) \notin {"\n", "\r"})
        \/ At(pat, j) = At(s, i + j - 1)

\* \b before position i
WordBoundary(s, i) == IsWordChar(At(s, i - 1)) # IsWordChar(At(s, i))

\* \b(alt1|alt2|...)\b at position i of the lowered text: the length of the
\* first alternative that matches, 0 when none does
AltLenAt(low, i, alts) ==
  IF ~WordBoundary(low, i) THEN 0
  ELSE With(FirstIndex(LAMBDA k : PatAt(low, i, alts[k])
                                    /\ WordBoundary(low, i + Len(alts[k])),
                       1, Len(alts)),
            LAMBDA k : IF k = 0 THEN 0 ELSE Len(alts[k]))

\* regex.test(text) for /\b(...)\b/i; low is the text in lower case
TestAlt(low, alts) == \E i \in 1..Len(low) : AltLenAt(low, i, alts) > 0

\* text.match(/\b(...)\b/gi): every match, left to right, without overlap
RECURSIVE matchAllFrom(_, _, _, _)
matchAllFrom(text, low, i, alts) ==
  With([k \in i..Len(low) |-> AltLenAt(low, k, alts)],
       LAMBDA len :
         With(FirstIndex(LAMBDA k : len[k] > 0, i, Len(low)),
              LAMBDA j : IF j = 0 THEN << >>
                         ELSE << SubSeq(text, j, j + len[j] - 1) >>
                                \o matchAllFrom(text, low, j + len[j], alts)))

matchAll(text, low, alts) == matchAllFrom(text, low, 1, alts)

\* [...new Set(a)]: first occurrences, in order
RECURSIVE dedupe(_)
dedupe(a) ==
  IF a = << >> THEN << >>
  ELSE LET r == dedupe(SubSeq(a, 1, Len(a) - 1))
       IN IF \E i \in 1..Len(r) : r[i] = a[Len(a)] THEN r ELSE Append(r, a[Len(a)])

\* (?:\d+\.|word|...|$) at position q of the lowered text
TerminatorAt(low, q, words) ==
  \/ q = Len(low) + 1
  \/ (IsDigit(At(low, q)) /\ At(low, digitsEnd(low, q)) = ".")
  \/ \E w \in words : HasAt(low, q, w)

\* ([^.]*?) followed by the terminator: the position where the lazy capture
\* that starts at q ends, 0 when a "." comes first
lazyEnd(low, q, words) ==
  With(FirstIndex(LAMBDA r : At(low, r) = "." \/ TerminatorAt(low, r, words),
                  q, Len(low) + 1),
       LAMBDA j : IF At(low, j) = "." THEN 0 ELSE j)

\* label s? :? \s* at position p: where the capture starts
captureStart(low, p, pat) ==
  With(p + Len(pat.label) + (IF pat.optS /\ At(low, p + Len(pat.label)) = "s" THEN 1 ELSE 0),
       LAMBDA b : skipWs(low, IF At(low, b) = ":" THEN b + 1 ELSE b))

\* text.match(/label s? :? \s* ([^.]*?) (?:\d+\.|terms|$)/i): leftmost match
sectionMatch(text, low, pat) ==
  With([k \in 1..Len(low) |->
          IF HasAt(low, k, pat.label)
          THEN With(captureStart(low, k, pat),
                    LAMBDA d : [from |-> d, to |-> lazyEnd(low, d, pat.terms)])
          ELSE [from |-> 0, to |-> 0]],
       LAMBDA m :
         With(FirstIndex(LAMBDA k : m[k].to > 0, 1, Len(low)),
              LAMBDA p : IF p = 0 THEN [found |-> FALSE, cap |-> ""]
                         ELSE [found |-> TRUE,
                               cap |-> SubSeq(text, m[p].from, m[p].to - 1)]))

\* the separator of split(/[,;]|\sand\s|or\s/) (withOr) or split(/[,;]|\sand\s/)
\* at position i: its length, 0 when there is none
SepLenAt(s, i, withOr) ==
  IF At(s, i) = "," \/ At(s, i) = ";" THEN 1
  ELSE IF IsSpace(At(s, i)) /\ HasAt(s, i + 1, "and") /\ IsSpace(At(s, i + 4)) THEN 5
  ELSE IF withOr /\ HasAt(s, i, "or") /\ IsSpace(At(s, i + 2)) THEN 3
  ELSE 0

RECURSIVE splitFrom(_, _, _)
splitFrom(s, start, withOr) ==
  With([k \in start..Len(s) |-> SepLenAt(s, k, withOr)],
       LAMBDA len :
         With(FirstIndex(LAMBDA k : len[k] > 0, start, Len(s)),
              LAMBDA j : IF j = 0 THEN << SubSeq(s, start, Len(s)) >>
                         ELSE << SubSeq(s, start, j - 1) >>
                                \o splitFrom(s, j + len[j], withOr)))

\* split, trim every fragment, keep those longer than minLen, cap at maxN
fragments(cap, withOr, minLen, maxN) ==
  With(splitFrom(cap, 1, withOr),
       LAMBDA parts : slice(SelectSeq([i \in 1..Len(parts) |-> trim(parts[i])],
                                      LAMBDA f : Len(f) > minLen), maxN))

\* ---------------------------------------------------- extraction helpers
conditionPatterns ==
  << [label |-> "possible condition", optS |-> TRUE,
      terms |-> {"recommendations", "urgency", "risk"}],
     [label |-> "differential diagnosis", optS |-> FALSE, terms |-> {"recommendations"}],
     [label |-> "may be", optS |-> FALSE, terms |-> {"recommendations"}] >>

recommendationPatterns ==
  << [label |-> "recommendation", optS |-> TRUE, terms |-> {"conditions", "urgency"}],
     [label |-> "should", optS |-> FALSE, terms |-> {"conditions"}],
     [label |-> "advise", optS |-> FALSE, terms |-> {"conditions"}] >>

medicalTerms ==
  << "cold", "flu", "fever", "infection", "allergy", "asthma", "diabetes",
     "hypertension", "stroke", "heart", "lung", "cancer" >>

\* the capture of the first pattern that matches with a non-empty capture,
\* "" when none does
RECURSIVE firstSection(_, _, _, _)
firstSection(text, low, patterns, k) ==
  IF k > Len(patterns) THEN ""
  ELSE With(sectionMatch(text, low, patterns[k]),
            LAMBDA m : IF m.found /\ m.cap # "" THEN m.cap
                       ELSE firstSection(text, low, patterns, k + 1))

\* lines 222-229: without a labelled section, the medical terms of the text
medicalTermsOf(text, low) ==
  With(dedupe(matchAll(text, low, medicalTerms)),
       LAMBDA found : IF found # << >> THEN slice(found, 5) ELSE << "Common illness" >>)

extractPossibleConditions(text) ==
  With(toLowerCase(text),
       LAMBDA low :
         With(firstSection(text, low, conditionPatterns, 1),
              LAMBDA cap : IF cap # "" THEN fragments(cap, TRUE, 2, 5)
                           ELSE medicalTermsOf(text, low)))

extractRecommendations(text) ==
  With(firstSection(text, toLowerCase(text), recommendationPatterns, 1),
       LAMBDA cap : IF cap # "" THEN fragments(cap, FALSE, 5, 3)
                    ELSE << "Consult healthcare provider" >>)

highRiskKeywords == << "severe", "critical", "life.threatening", "intense", "unbearable", "emergency" >>
lowRiskKeywords == << "mild", "slight", "minor", "occasional" >>

\* keywords.test(text) || keywords.test(symptoms)
testEither(keywords, text, symptoms) ==
  \E t \in {text, symptoms} : TestAlt(toLowerCase(t), keywords)

calculateRiskScore(urgencyLevel, text, symptoms) ==
  Min(Max(50 + (CASE urgencyLevel = "LOW" -> -20
                  [] urgencyLevel = "HIGH" -> 20
                  [] urgencyLevel = "EMERGENCY" -> 30
                  [] OTHER -> 0)
             + (IF testEither(highRiskKeywords, text, symptoms) THEN 20 ELSE 0)
             - (IF testEither(lowRiskKeywords, text, symptoms) THEN 10 ELSE 0),
          0), 100)

emergencyPatterns ==
  << << "stroke", "heart.attack", "cardiac.arrest", "sepsis", "shock", "unconsciousness",
        "severe.bleeding", "breathing.difficulty" >>,
     << "emergency", "critical", "life.threatening", "immediate.attention" >> >>

RECURSIVE matchEach(_, _, _, _)
matchEach(text, low, patterns, k) ==
  IF k > Len(patterns) THEN << >>
  ELSE matchAll(text, low, patterns[k]) \o matchEach(text, low, patterns, k + 1)

extractEmergencyFlags(text) ==
  slice(dedupe(matchEach(text, toLowerCase(text), emergencyPatterns, 1)), 3)

\* ----------------------------------------------- classification collaborator
urgencyLabels ==
  << "low urgency medical condition", "medium urgency medical condition",
     "high urgency medical condition", "emergency medical situation" >>

emergencyLabels ==
  << "emergency medical situation requiring immediate attention",
     "non-emergency medical condition" >>

recommendationLabels ==
  << "rest and monitor symptoms", "seek immediate medical attention",
     "consult healthcare provider", "use over-the-counter medications",
     "lifestyle changes", "preventive measures" >>

\* a classification result: the labels in rank order with their scores, in
\* hundredths
Ranking(labels, order, scores) ==
  [i \in 1..Len(order) |-> [label |-> labels[order[i]], score |-> scores[i]]]

UrgencyResults ==
  { Ranking(urgencyLabels, ord, << 70, 15, 10, 5 >>) :
      ord \in { << 1, 2, 3, 4 >>, << 2, 1, 3, 4 >>, << 3, 2, 1, 4 >>, << 4, 3, 2, 1 >> } }

EmergencyResults ==
  { Ranking(emergencyLabels, << 1, 2 >>, << 55, 45 >>),
    Ranking(emergencyLabels, << 2, 1 >>, << 95, 5 >>) }

RecommendationResults ==
  { Ranking(recommendationLabels, << 2, 3, 1, 4, 5, 6 >>, << 32, 31, 31, 3, 2, 1 >>),
    Ranking(recommendationLabels, << 1, 3, 4, 5, 6, 2 >>, << 30, 25, 20, 15, 5, 5 >>) }

\* what one classifier(text, labels) call does: it throws or returns a result
ClassifierOutcomes(results) ==
  { [threw |-> TRUE, result |-> << >>] } \cup { [threw |-> FALSE, result |-> r] : r \in results }

\* --------------------------------------------------------------- src/lib/ai.ts
mapUrgencyLevel(level) ==
  With(toUpperCase(level),
       LAMBDA normalized : IF normalized \in {"LOW", "MEDIUM", "HIGH", "EMERGENCY"}
                           THEN normalized ELSE "MEDIUM")

priorityOrder == [LOW |-> 1, MEDIUM |-> 2, HIGH |-> 3, EMERGENCY |-> 4]

\* faulty variant: the lower of the two levels
getHigherPriorityUrgency_lower(level1, level2) ==
  IF priorityOrder[level1] <= priorityOrder[level2] THEN level1 ELSE level2

getHigherPriorityUrgency(level1, level2) ==
  IF priorityOrder[level1] >= priorityOrder[level2] THEN level1 ELSE level2

Strs(a) == [i \in 1..Len(a) |-> JStr(a[i])]

NoAnalysis ==
  [possibleConditions |-> << >>, urgencyLevel |-> "", recommendations |-> << >>,
   riskScore |-> 0, emergencyFlags |-> << >>]

\* lines 134-151: the direct structured parse; ok = FALSE when JSON.parse or
\* the construction of the record throws, or a mandatory field is falsy
\* faulty variant: the parsed array is not taken over
arrayOr_empty(v) == << >>

\* Array.isArray(v) ? v : []
arrayOr(v) == IF v.ty = "array" THEN v.a ELSE << >>

\* faulty variant: the parsed score is not clamped
parsedRecord_unclamped(conditions, urgency, recs, risk, flags) ==
  [possibleConditions |-> arrayOr(conditions),
   urgencyLevel |-> mapUrgencyLevel(urgency.s),
   recommendations |-> arrayOr(recs),
   riskScore |-> IF risk.ty = "number" THEN risk.n ELSE 50,
   emergencyFlags |-> arrayOr(flags)]

\* lines 139-145: the record built from the parsed fields
parsedRecord(conditions, urgency, recs, risk, flags) ==
  [possibleConditions |-> arrayOr(conditions),
   urgencyLevel |-> mapUrgencyLevel(urgency.s),
   recommendations |-> arrayOr(recs),
   riskScore |-> IF risk.ty = "number" THEN Min(Max(risk.n, 0), 100) ELSE 50,
   emergencyFlags |-> arrayOr(flags)]

\* lines 137-146 for the value JSON.parse returned
directFields(parsed, conditions, urgency, recs) ==
  IF parsed.ty = "null" THEN [ok |-> FALSE, rec |-> NoAnalysis]
  ELSE IF ~(Truthy(conditions) /\ Truthy(urgency) /\ Truthy(recs))
  THEN [ok |-> FALSE, rec |-> NoAnalysis]
  ELSE IF urgency.ty # "string" THEN [ok |-> FALSE, rec |-> NoAnalysis]
  ELSE [ok |-> TRUE,
        rec |-> parsedRecord(conditions, urgency, recs, Get(parsed, "riskScore"),
                             Get(parsed, "emergencyFlags"))]

directParse(geminiResponse) ==
  With(JSONparse(geminiResponse),
       LAMBDA p : IF ~p.ok THEN [ok |-> FALSE, rec |-> NoAnalysis]
                  ELSE directFields(p.v, Get(p.v, "possibleConditions"),
                                    Get(p.v, "urgencyLevel"), Get(p.v, "recommendations")))

\* lines 193-202: the record the catch block of the extractor returns
extractorFallback ==
  [possibleConditions |-> Strs(<< "Analysis pending" >>), urgencyLevel |-> "MEDIUM",
   recommendations |-> Strs(<< "Consult healthcare provider" >>), riskScore |-> 50,
   emergencyFlags |-> << >>]

\* lines 170-174
topUrgency(result) ==
  With(toLowerCase(result[1].label),
       LAMBDA label : IF includes(label, "emergency") THEN "EMERGENCY"
                      ELSE IF includes(label, "high") THEN "HIGH"
                      ELSE IF includes(label, "low") THEN "LOW"
                      ELSE "MEDIUM")

\* lines 153-191: pattern based extraction; classifier is the handle that
\* getZeroShotClassifier returned (FALSE for null), outcome what the
\* classifier call did
patternExtract(geminiResponse, originalSymptoms, classifier, outcome) ==
  IF ~classifier \/ outcome.threw THEN extractorFallback
  ELSE With(topUrgency(outcome.result),
            LAMBDA urgencyLevel :
              [possibleConditions |-> Strs(extractPossibleConditions(geminiResponse)),
               urgencyLevel |-> urgencyLevel,
               recommendations |-> Strs(extractRecommendations(geminiResponse)),
               riskScore |-> calculateRiskScore(urgencyLevel, geminiResponse, originalSymptoms),
               emergencyFlags |-> Strs(extractEmergencyFlags(geminiResponse))])

\* lines 45-67
classifyUrgencyLevel(classifier, outcome) ==
  IF ~classifier THEN "MEDIUM"
  ELSE IF outcome.threw THEN "MEDIUM"
  ELSE With(toLowerCase(outcome.result[1].label),
            LAMBDA topLabel : IF includes(topLabel, "emergency") THEN "EMERGENCY"
                              ELSE IF includes(topLabel, "high") THEN "HIGH"
                              ELSE IF includes(topLabel, "medium") THEN "MEDIUM"
                              ELSE IF includes(topLabel, "low") THEN "LOW"
                              ELSE "MEDIUM")

\* lines 69-88
validateEmergencyDetection(classifier, outcome) ==
  IF ~classifier THEN FALSE
  ELSE IF outcome.threw THEN FALSE
  ELSE includes(toLowerCase(outcome.result[1].label), "emergency")

readableRecommendation(label) ==
  CASE label = "rest and monitor symptoms" -> "Rest and monitor your symptoms"
    [] label = "seek immediate medical attention" -> "Seek immediate medical attention"
    [] label = "consult healthcare provider" -> "Consult a healthcare provider"
    [] label = "use over-the-counter medications" -> "Consider over-the-counter medications"
    [] label = "lifestyle changes" -> "Make appropriate lifestyle changes"
    [] label = "preventive measures" -> "Take preventive measures"
    [] OTHER -> label

\* lines 90-127
classifyRecommendations(classifier, outcome) ==
  IF ~classifier THEN << "Consult healthcare provider" >>
  ELSE IF outcome.threw THEN << "Consult healthcare provider" >>
  ELSE LET kept == slice(SelectSeq(outcome.result, LAMBDA item : item.score > 30), 3)
           recommendations == [i \in 1..Len(kept) |-> readableRecommendation(kept[i].label)]
       IN IF Len(recommendations) > 0 THEN recommendations
          ELSE << "Consult healthcare provider" >>

\* lines 342-348: the text that stands in for a failed generation call
analysisApiFallbackText ==
  JSONstringify(JPairs(<<
    << "possibleConditions", JStrs(<< "Analysis temporarily unavailable" >>) >>,
    << "urgencyLevel", JStr("MEDIUM") >>,
    << "recommendations", JStrs(<< "Please consult a healthcare professional" >>) >>,
    << "riskScore", JNum(50) >>,
    << "emergencyFlags", JArr(<< >>) >> >>))

\* lines 579-583
emergencyApiFallbackText ==
  JSONstringify(JPairs(<<
    << "isEmergency", JBool(FALSE) >>,
    << "emergencyType", JStr("") >>,
    << "message",
       JStr("Unable to analyze - please contact emergency services if symptoms are severe") >> >>))

\* faulty variant: the outer catch rethrows
analyzeSymptomsCatch_rethrows == [status |-> "rejected", value |-> NoAnalysis]

\* lines 420-433: what the outer catch of analyzeSymptoms settles the promise with
analyzeSymptomsCatch ==
  [status |-> "fulfilled",
   value |-> [possibleConditions |->
                Strs(<< "Unable to analyze - please consult healthcare provider" >>),
              urgencyLevel |-> "MEDIUM",
              recommendations |->
                Strs(<< "Contact medical professional for proper diagnosis" >>),
              riskScore |-> 50,
              emergencyFlags |-> << >>]]

\* in the Bengali messages the danda is written "."
NoEmergency == [isEmergency |-> FALSE, message |-> JUndef]

\* lines 636-646: what the outer catch of detectEmergency settles the promise with
detectEmergencyCatch(language) ==
  [status |-> "fulfilled",
   value |-> [isEmergency |-> FALSE,
              message |-> JStr(IF language = "BN"
                               THEN "জরুরি সনাক্তকরণ সিস্টেমে সমস্যা হয়েছে. অনুগ্রহ করে সরাসরি জরুরি সেবায় যোগাযোগ করুন."
                               ELSE "Emergency detection system error. Please contact emergency services directly.")]]

\* lines 616-625: the record of the fallback branch of detectEmergency
detectFallbackRecord(isEmergencyValidated, language) ==
  [isEmergency |-> isEmergencyValidated,
   message |-> JStr(IF isEmergencyValidated
                    THEN IF language = "BN"
                         THEN "জরুরি অবস্থা সনাক্ত হয়েছে. দ্রুত চিকিৎসকের সাথে যোগাযোগ করুন."
                         ELSE "Emergency situation detected. Please contact medical professional immediately."
                    ELSE IF language = "BN"
                         THEN "বিশ্লেষণ সম্পূর্ণ হয়নি. অনুগ্রহ করে চিকিৎসকের সাথে যোগাযোগ করুন."
                         ELSE "Analysis incomplete. Please contact medical professional.")]

\* lines 595-603: the record of the main branch of detectEmergency
detectRecord(validatedEmergency, analysis) ==
  LET flag == Get(analysis, "isEmergency")
      message == Get(analysis, "message")
  IN [isEmergency |-> validatedEmergency \/ (IF flag.ty = "boolean" THEN flag.b ELSE FALSE),
      message |-> IF Truthy(message) THEN message ELSE JStr("")]

\* ------------------------------------------------------------------ inputs
\* request bodies: the narrative and the language tag
Bodies ==
  { [symptoms |-> "I have chest pain and difficulty breathing", language |-> "EN"],
    [symptoms |-> "mild headache for one day", language |-> "EN"],
    [symptoms |-> "Severe cough since Monday", language |-> "EN"],
    [symptoms |-> "আমার বুকে ব্যথা", language |-> "BN"],
    [symptoms |-> "", language |-> "EN"],
    [symptoms |-> "mild headache for one day", language |-> "FR"] }

\* texts the generation collaborator may return for the symptom analysis
AnalysisTexts ==
  { "{\"possibleConditions\":[\"Tension headache\"],\"urgencyLevel\":\"LOW\",\"recommendations\":[\"Rest and hydrate\"],\"riskScore\":2,\"emergencyFlags\":[]}",
    "{\"possibleConditions\": [\"Heart attack\"], \"urgencyLevel\": \"EMERGENCY\", \"recommendations\": [\"Call emergency services\"], \"riskScore\": 15, \"emergencyFlags\": [\"chest pain\"]}",
    "{\"possibleConditions\":[],\"urgencyLevel\":\"critical\",\"recommendations\":[],\"riskScore\":-3}",
    "{\"possibleConditions\":\"flu\",\"urgencyLevel\":\"high\",\"recommendations\":\"rest\",\"riskScore\":\"7\"}",
    "{\"possibleConditions\":[\"Migraine\",\"Sinusitis\",\"Flu\",\"Cold\",\"Anemia\",\"Stress\"],\"urgencyLevel\":\"HIGH\",\"recommendations\":[\"Rest\",\"Drink water\",\"See a doctor\",\"Avoid screens\"],\"riskScore\":8.5,\"emergencyFlags\":[]}",
    "{\"possibleConditions\":[\"flu\"],\"urgencyLevel\":\"LOW\"}",
    "{\"possibleConditions\":[\"Sepsis\"],\"urgencyLevel\":\"critical\"}",
    "{\"possibleConditions\":[\"Flu\"],\"urgencyLevel\":\"LOW\",\"recommendations\":[\"Consult healthcare provider\",\"Rest and hydrate\"],\"riskScore\":3,\"emergencyFlags\":[]}",
    "Take it easy and drink water",
    "Possible conditions: flu, common cold or sinus infection Recommendations: rest well, drink fluids and see a doctor",
    "possible conditions: a, b",
    "This is a severe, life-threatening emergency. Possible stroke",
    "null",
    "" }

\* texts the generation collaborator may return for the emergency assessment
EmergencyTexts ==
  { "{\"isEmergency\": false, \"emergencyType\": \"\", \"message\": \"No emergency detected\"}",
    "{\"isEmergency\": true, \"emergencyType\": \"cardiac\", \"message\": \"Call emergency services now\"}",
    "{\"isEmergency\":\"yes\",\"message\":\"\"}",
    "I cannot assess this",
    "null",
    "" }

\* what one model.generateContent call does: it throws or returns a text
GenerationOutcomes(texts) ==
  { [threw |-> TRUE, text |-> ""] } \cup { [threw |-> FALSE, text |-> t] : t \in texts }

Tasks == {"analyzeSymptoms", "detectEmergency"}

\* ------------------------------------------------------------------- state
VARIABLES
  apiKey,                \* process.env.GEMINI_API_KEY is configured
  zeroShotClassifier,    \* the module level handle: "null" or "pipeline"
  rpc,                   \* where the POST handler is
  body,                  \* the request body
  hasEmergencyKeywords,  \* the handler's local of that name
  task,                  \* the two promises the handler awaits
  consultation,          \* the row prisma.consultation.create stored
  emergencyAlert,        \* the row prisma.emergencyAlert.create stored
  response               \* the HTTP response

vars == << apiKey, zeroShotClassifier, rpc, body, hasEmergencyKeywords, task,
           consultation, emergencyAlert, response >>

NoBody == [symptoms |-> "", language |-> ""]
NoRow == [id |-> 0]
\* thrown: the class of the error that reached the handler's catch block
NoResponse == [status |-> 0, thrown |-> "", analysis |-> NoAnalysis, emergency |-> NoEmergency]

\* POST, lines 305-322: a ZodError, a TypeError, an error handleAIError threw or
\* a Prisma error is no ValidationError, so handleDatabaseError rethrows it and the
\* handler answers 500
catchResponse(thrown) == [NoResponse EXCEPT !.status = 500, !.thrown = thrown]

IdleAnalyze ==
  [pc |-> "idle", loading |-> FALSE, generation |-> "", text |-> "", strategy |-> "",
   analysis |-> NoAnalysis, topLabel |-> "", validator |-> "", enhanced |-> "",
   final |-> "", status |-> "pending", value |-> NoAnalysis]

IdleDetect ==
  [pc |-> "idle", loading |-> FALSE, generation |-> "", text |-> "", parsed |-> JUndef,
   validator |-> "", validated |-> FALSE, status |-> "pending", value |-> NoEmergency]

Settle(t, promise) ==
  [t EXCEPT !.pc = "settled", !.loading = FALSE, !.status = promise.status,
            !.value = promise.value]

\* ---------------------------------------------------------- analyzeSymptoms
\* faulty variant: the generation call is made whether or not the key is set
analyzeStart_ignoresKey(key) == [IdleAnalyze EXCEPT !.pc = "generate"]

\* lines 309-336: up to the await of model.generateContent
analyzeStart(key) ==
  IF ~key THEN Settle([IdleAnalyze EXCEPT !.generation = "nokey"], analyzeSymptomsCatch)
  ELSE [IdleAnalyze EXCEPT !.pc = "generate"]

\* lines 334-353 and 134-151: the generation call settles, then the direct
\* parse of the extractor runs
analyzeGenerated(a, outcome) ==
  LET text == IF outcome.threw THEN analysisApiFallbackText ELSE outcome.text
      direct == directParse(text)
      a1 == [a EXCEPT !.text = text,
                      !.generation = IF outcome.threw THEN "failed" ELSE "ok"]
  IN IF direct.ok
     THEN [a1 EXCEPT !.pc = "classifyUrgency", !.strategy = "direct", !.analysis = direct.rec]
     ELSE [a1 EXCEPT !.pc = "extract"]

\* lines 363-378: recommendation enhancement is needed
needsRecommendations(recommendations) ==
  Len(recommendations) = 0 \/ recommendations[1] = JStr("Consult healthcare provider")

\* the continuation of analyzeSymptoms after getZeroShotClassifier returned
\* (classifier = FALSE for null) and the classifier call did outcome
analyzeClassified(a, symptoms, classifier, outcome) ==
  CASE a.pc = "extract" ->
         LET rec == patternExtract(a.text, symptoms, classifier, outcome)
             used == classifier /\ ~outcome.threw
         IN [a EXCEPT !.pc = "classifyUrgency",
                      !.strategy = IF used THEN "pattern" ELSE "default",
                      !.topLabel = IF used THEN outcome.result[1].label ELSE "",
                      !.analysis = rec]
    [] a.pc = "classifyUrgency" ->
         LET enhancedUrgencyLevel == classifyUrgencyLevel(classifier, outcome)
             finalUrgencyLevel ==
               getHigherPriorityUrgency(a.analysis.urgencyLevel, enhancedUrgencyLevel)
             a1 == [a EXCEPT !.validator = IF classifier /\ ~outcome.threw
                                           THEN "voted" ELSE "unavailable",
                             !.enhanced = enhancedUrgencyLevel,
                             !.final = finalUrgencyLevel]
         IN IF needsRecommendations(a.analysis.recommendations)
            THEN [a1 EXCEPT !.pc = "classifyRecommendations"]
            ELSE Settle(a1, [status |-> "fulfilled",
                             value |-> [a.analysis EXCEPT !.urgencyLevel = finalUrgencyLevel]])
    [] a.pc = "classifyRecommendations" ->
         LET enhancedRecommendations == Strs(classifyRecommendations(classifier, outcome))
             finalRecommendations ==
               IF Len(enhancedRecommendations) > 0 THEN enhancedRecommendations
               ELSE a.analysis.recommendations
         IN Settle(a, [status |-> "fulfilled",
                       value |-> [a.analysis EXCEPT !.urgencyLevel = a.final,
                                                    !.recommendations = finalRecommendations]])

\* ---------------------------------------------------------- detectEmergency
\* lines 531-573
detectStart(key, language) ==
  IF ~key THEN Settle([IdleDetect EXCEPT !.generation = "nokey"], detectEmergencyCatch(language))
  ELSE [IdleDetect EXCEPT !.pc = "generate"]

\* lines 571-587: the generation call settles, then JSON.parse
detectGenerated(e, outcome) ==
  LET text == IF outcome.threw THEN emergencyApiFallbackText ELSE outcome.text
      p == JSONparse(text)
      e1 == [e EXCEPT !.text = text,
                      !.generation = IF outcome.threw THEN "failed" ELSE "ok"]
  IN IF p.ok THEN [e1 EXCEPT !.pc = "validate", !.parsed = p.v]
     ELSE [e1 EXCEPT !.pc = "revalidate"]

\* the continuation of detectEmergency after validateEmergencyDetection
detectClassified(e, language, classifier, outcome) ==
  LET validated == validateEmergencyDetection(classifier, outcome)
      e1 == [e EXCEPT !.validator = IF classifier /\ ~outcome.threw
                                    THEN "voted" ELSE "unavailable",
                      !.validated = validated]
  IN CASE e.pc = "validate" ->
            \* reading a property of null throws into the parseError catch
            IF e.parsed.ty = "null" THEN [e1 EXCEPT !.pc = "revalidate"]
            ELSE Settle(e1, [status |-> "fulfilled", value |-> detectRecord(validated, e.parsed)])
       [] e.pc = "revalidate" ->
            Settle(e1, [status |-> "fulfilled",
                        value |-> detectFallbackRecord(validated, language)])

\* ------------------------------------------------------------- the two tasks
ClassifierSites == {"extract", "classifyUrgency", "classifyRecommendations",
                    "validate", "revalidate"}

\* the results the classifier can give at this point of the task; a second
\* classification of the same text ranks the labels as the first did
ClassifierChoices(tk) ==
  CASE tk.pc = "extract" -> ClassifierOutcomes(UrgencyResults)
    [] tk.pc = "classifyUrgency" ->
         { o \in ClassifierOutcomes(UrgencyResults) :
             o.threw \/ tk.topLabel = "" \/ o.result[1].label = tk.topLabel }
    [] tk.pc = "classifyRecommendations" -> ClassifierOutcomes(RecommendationResults)
    [] OTHER -> ClassifierOutcomes(EmergencyResults)

NoOutcome == [threw |-> TRUE, result |-> << >>]

Classified(t, classifier, outcome) ==
  IF t = "analyzeSymptoms"
  THEN analyzeClassified(task[t], body.symptoms, classifier, outcome)
  ELSE detectClassified(task[t], body.language, classifier, outcome)

\* faulty variant: nothing is validated
ValidBody_any(b) == TRUE

\* createConsultationSchema
ValidBody(b) == b.symptoms # "" /\ b.language \in {"EN", "BN"}

\* ------------------------------------------------------------------ actions
Init ==
  /\ apiKey \in BOOLEAN
  /\ zeroShotClassifier = "null"
  /\ rpc = "idle"
  /\ body = NoBody
  /\ hasEmergencyKeywords = FALSE
  /\ task = [t \in Tasks |-> IF t = "analyzeSymptoms" THEN IdleAnalyze ELSE IdleDetect]
  /\ consultation = NoRow
  /\ emergencyAlert = NoRow
  /\ response = NoResponse

\* POST, lines 170-185: validation, the lexical matcher, and the start of the
\* two analyses, each up to its first await
Post(b) ==
  /\ rpc = "idle"
  /\ body' = b
  /\ IF ~ValidBody(b)
     THEN /\ response' = catchResponse("ZodError")
          /\ rpc' = "done"
          /\ UNCHANGED << hasEmergencyKeywords, task >>
     ELSE IF callContainsEmergencyKeywords(b.symptoms, b.language).threw
     THEN /\ response' = catchResponse("TypeError")
          /\ rpc' = "done"
          /\ UNCHANGED << hasEmergencyKeywords, task >>
     ELSE /\ hasEmergencyKeywords' =
               callContainsEmergencyKeywords(b.symptoms, b.language).value
          /\ task' = [t \in Tasks |-> IF t = "analyzeSymptoms" THEN analyzeStart(apiKey)
                                      ELSE detectStart(apiKey, b.language)]
          /\ rpc' = "settling"
          /\ UNCHANGED response
  /\ UNCHANGED << apiKey, zeroShotClassifier, consultation, emergencyAlert >>

\* model.generateContent settles
Generate(t) ==
  /\ task[t].pc = "generate"
  /\ \E outcome \in GenerationOutcomes(IF t = "analyzeSymptoms" THEN AnalysisTexts
                                       ELSE EmergencyTexts) :
       task' = [task EXCEPT ![t] = IF t = "analyzeSymptoms"
                                   THEN analyzeGenerated(task[t], outcome)
                                   ELSE detectGenerated(task[t], outcome)]
  /\ UNCHANGED << apiKey, zeroShotClassifier, rpc, body, hasEmergencyKeywords,
                  consultation, emergencyAlert, response >>

\* getZeroShotClassifier, lines 13-18: the handle is null, pipeline() is called
BeginLoad(t) ==
  /\ task[t].pc \in ClassifierSites
  /\ ~task[t].loading
  /\ zeroShotClassifier = "null"
  /\ task' = [task EXCEPT ![t].loading = TRUE]
  /\ UNCHANGED << apiKey, zeroShotClassifier, rpc, body, hasEmergencyKeywords,
                  consultation, emergencyAlert, response >>

\* getZeroShotClassifier, lines 15-24: pipeline() settles; the caller goes on
\* with the handle or with null
LoadSettles(t) ==
  /\ task[t].loading
  /\ \/ /\ zeroShotClassifier' = "pipeline"
        /\ \E outcome \in ClassifierChoices(task[t]) :
             task' = [task EXCEPT ![t] = [Classified(t, TRUE, outcome) EXCEPT !.loading = FALSE]]
     \/ /\ task' = [task EXCEPT ![t] = [Classified(t, FALSE, NoOutcome) EXCEPT !.loading = FALSE]]
        /\ UNCHANGED zeroShotClassifier
  /\ UNCHANGED << apiKey, rpc, body, hasEmergencyKeywords, consultation, emergencyAlert,
                  response >>

\* getZeroShotClassifier returns the cached handle and the classifier is called
ClassifierCall(t) ==
  /\ task[t].pc \in ClassifierSites
  /\ ~task[t].loading
  /\ zeroShotClassifier # "null"
  /\ \E outcome \in ClassifierChoices(task[t]) :
       task' = [task EXCEPT ![t] = Classified(t, TRUE, outcome)]
  /\ UNCHANGED << apiKey, zeroShotClassifier, rpc, body, hasEmergencyKeywords,
                  consultation, emergencyAlert, response >>

\* a collaborator call that never settles: model.generateContent (ai.ts 334 and
\* 571), pipeline() (15) and the classifier calls (52, 75, 104) are awaited
\* with no timeout, so the task stays at its await; what it computed so far is
\* never seen again
Hang(t) ==
  /\ task[t].pc \in {"generate"} \cup ClassifierSites
  /\ task' = [task EXCEPT ![t] =
                [(IF t = "analyzeSymptoms" THEN IdleAnalyze ELSE IdleDetect)
                   EXCEPT !.pc = "hung",
                          !.generation = IF task[t].pc = "generate" THEN "hung"
                                         ELSE task[t].generation,
                          !.validator = IF task[t].pc = "generate" THEN "" ELSE "hung"]]
  /\ UNCHANGED << apiKey, zeroShotClassifier, rpc, body, hasEmergencyKeywords,
                  consultation, emergencyAlert, response >>

\* POST, lines 187-220: what the handler makes of the two settled promises
routeAnalysis(a) ==
  IF a.status = "fulfilled" THEN a.value
  ELSE [possibleConditions |-> Strs(<< "Analysis pending" >>), urgencyLevel |-> "MEDIUM",
        recommendations |-> Strs(<< "Consult healthcare provider" >>), riskScore |-> 50,
        emergencyFlags |-> << >>]

routeEmergency(e) ==
  IF e.status = "fulfilled" THEN e.value
  ELSE [isEmergency |-> FALSE, message |-> JStr("No emergency detected")]

\* faulty variant: nothing escalates the urgency of the analysis
finalUrgency_analysisOnly(analysis, emergency, keywords) == analysis.urgencyLevel

\* faulty variant: the assessment's flag does not escalate
finalUrgency_keywordsOnly(analysis, emergency, keywords) ==
  IF keywords THEN "EMERGENCY" ELSE analysis.urgencyLevel

\* lines 216-220
finalUrgency(analysis, emergency, keywords) ==
  IF emergency.isEmergency \/ keywords THEN "EMERGENCY" ELSE analysis.urgencyLevel

\* faulty variant: an escalated outcome gets the highest score
buildResponse_rescored(analysis, emergency, finalUrgencyLevel, alert) ==
  [status |-> 201,
   thrown |-> "",
   analysis |-> [analysis EXCEPT !.urgencyLevel = finalUrgencyLevel,
                                 !.riskScore = IF finalUrgencyLevel = "EMERGENCY"
                                               THEN 100 ELSE analysis.riskScore],
   emergency |-> [isEmergency |-> emergency.isEmergency \/ finalUrgencyLevel = "EMERGENCY",
                  message |-> emergency.message]]

\* faulty variant: the response repeats the assessment's flag
buildResponse_flagOnly(analysis, emergency, finalUrgencyLevel, alert) ==
  [status |-> 201,
   thrown |-> "",
   analysis |-> [analysis EXCEPT !.urgencyLevel = finalUrgencyLevel],
   emergency |-> [isEmergency |-> emergency.isEmergency, message |-> emergency.message]]

\* lines 272-286
buildResponse(analysis, emergency, finalUrgencyLevel, alert) ==
  [status |-> 201,
   thrown |-> "",
   analysis |-> [analysis EXCEPT !.urgencyLevel = finalUrgencyLevel],
   emergency |-> [isEmergency |-> emergency.isEmergency \/ finalUrgencyLevel = "EMERGENCY",
                  message |-> emergency.message]]

\* faulty variant: the handler goes on when the first promise has settled
allSettled_any == \E t \in Tasks : task[t].pc = "settled"

\* lines 182-185: await Promise.allSettled([analyzeSymptoms, detectEmergency])
allSettled == \A t \in Tasks : task[t].pc = "settled"

\* the stored location of the authenticated user (lines 145-160), in tenths of
\* a degree
Users ==
  { [latitude |-> JNum(238), longitude |-> JNum(904)],
    [latitude |-> JNum(0), longitude |-> JNum(904)] }

\* v || null
orNull(v) == IF Truthy(v) THEN v ELSE JNull

\* POST, lines 182-251 and 272-303: both promises have settled; arbitration,
\* then prisma.consultation.create (the row comes back with its user), and the
\* response when no alert is due
Arbitrate ==
  /\ rpc = "settling"
  /\ allSettled
  /\ \E user \in Users :
     LET analysis == routeAnalysis(task["analyzeSymptoms"])
         emergency == routeEmergency(task["detectEmergency"])
         finalUrgencyLevel == finalUrgency(analysis, emergency, hasEmergencyKeywords)
         rejected == \E t \in Tasks : task[t].status = "rejected"
     IN \/ /\ rejected
           \* handleAIError throws
           /\ response' = catchResponse("AIError")
           /\ rpc' = "done"
           /\ UNCHANGED consultation
        \/ /\ ~rejected
           /\ consultation' = [id |-> 1, urgencyLevel |-> finalUrgencyLevel,
                               status |-> IF finalUrgencyLevel = "EMERGENCY"
                                          THEN "EMERGENCY" ELSE "PENDING",
                               user |-> user]
           /\ IF emergency.isEmergency \/ finalUrgencyLevel = "EMERGENCY"
              THEN rpc' = "alert" /\ UNCHANGED response
              ELSE /\ rpc' = "done"
                   /\ response' = buildResponse(analysis, emergency, finalUrgencyLevel, NoRow)
        \/ /\ ~rejected
           \* prisma.consultation.create throws
           /\ response' = catchResponse("PrismaError")
           /\ rpc' = "done"
           /\ UNCHANGED consultation
  /\ UNCHANGED << apiKey, zeroShotClassifier, body, hasEmergencyKeywords, task, emergencyAlert >>

\* faulty variant: a failed alert takes the consultation row back
CreateAlert_rollback ==
  /\ rpc = "alert"
  /\ LET analysis == routeAnalysis(task["analyzeSymptoms"])
         emergency == routeEmergency(task["detectEmergency"])
         finalUrgencyLevel == finalUrgency(analysis, emergency, hasEmergencyKeywords)
         alert == [id |-> 1, consultationId |-> consultation.id,
                   emergencyType |-> IF emergency.isEmergency
                                     THEN "MEDICAL_EMERGENCY" ELSE "OTHER",
                   urgencyLevel |-> "EMERGENCY",
                   latitude |-> orNull(consultation.user.latitude),
                   longitude |-> orNull(consultation.user.longitude)]
     IN \/ /\ emergencyAlert' = alert
           /\ response' = buildResponse(analysis, emergency, finalUrgencyLevel, alert)
           /\ UNCHANGED consultation
        \/ /\ response' = catchResponse("PrismaError")
           /\ consultation' = NoRow
           /\ UNCHANGED emergencyAlert
  /\ rpc' = "done"
  /\ UNCHANGED << apiKey, zeroShotClassifier, body, hasEmergencyKeywords, task >>

\* POST, lines 253-303: prisma.emergencyAlert.create, then the response
CreateAlert ==
  /\ rpc = "alert"
  /\ LET analysis == routeAnalysis(task["analyzeSymptoms"])
         emergency == routeEmergency(task["detectEmergency"])
         finalUrgencyLevel == finalUrgency(analysis, emergency, hasEmergencyKeywords)
         alert == [id |-> 1, consultationId |-> consultation.id,
                   emergencyType |-> IF emergency.isEmergency
                                     THEN "MEDICAL_EMERGENCY" ELSE "OTHER",
                   urgencyLevel |-> "EMERGENCY",
                   latitude |-> orNull(consultation.user.latitude),
                   longitude |-> orNull(consultation.user.longitude)]
     IN \/ /\ emergencyAlert' = alert
           /\ response' = buildResponse(analysis, emergency, finalUrgencyLevel, alert)
        \/ /\ response' = catchResponse("PrismaError")
           /\ UNCHANGED emergencyAlert
  /\ rpc' = "done"
  /\ UNCHANGED << apiKey, zeroShotClassifier, body, hasEmergencyKeywords, task, consultation >>

\* the next request of the same process: only the classifier handle is kept
NextRequest ==
  /\ rpc = "done"
  /\ rpc' = "idle"
  /\ body' = NoBody
  /\ hasEmergencyKeywords' = FALSE
  /\ task' = [t \in Tasks |-> IF t = "analyzeSymptoms" THEN IdleAnalyze ELSE IdleDetect]
  /\ consultation' = NoRow
  /\ emergencyAlert' = NoRow
  /\ response' = NoResponse
  /\ UNCHANGED << apiKey, zeroShotClassifier >>

Next ==
  \/ \E b \in Bodies : Post(b)
  \/ \E t \in Tasks : Generate(t)
  \/ \E t \in Tasks : BeginLoad(t)
  \/ \E t \in Tasks : LoadSettles(t)
  \/ \E t \in Tasks : ClassifierCall(t)
  \/ Arbitrate
  \/ CreateAlert
  \/ NextRequest

Spec == Init /\ [][Next]_vars

\* the program with collaborators that may never answer; the event loop runs
\* every continuation that is ready
HangNext ==
  \/ Next
  \/ \E t \in Tasks : Hang(t)

HangSpec == Init /\ [][HangNext]_vars /\ WF_vars(HangNext)

\* ------------------------------------------------- the functions on their own
\* A call of an exported function with arguments of its parameter types: body
\* holds the call, response what it returned or that it threw.

\* JSON.stringify of an analysis record, its fields in the order the code
\* writes them
stringifyAnalysis(r) ==
  JSONstringify(JPairs(<<
    << "possibleConditions", JArr(r.possibleConditions) >>,
    << "urgencyLevel", JStr(r.urgencyLevel) >>,
    << "recommendations", JArr(r.recommendations) >>,
    << "riskScore", JNum(r.riskScore) >>,
    << "emergencyFlags", JArr(r.emergencyFlags) >> >>))

\* well-formed records: urgency of the enumeration, a score from 0 to 10 (in
\* tenths), lists of strings that need no escape
WellFormedRecords ==
  [possibleConditions : { << >>, Strs(<< "Flu" >>), Strs(<< "Tension headache", "Flu" >>) },
   urgencyLevel : DOMAIN priorityOrder,
   recommendations : { << >>, Strs(<< "Rest and hydrate" >>),
                       Strs(<< "Consult healthcare provider", "Rest" >>) },
   riskScore : { 0, 5, 50, 85, 100 },
   emergencyFlags : { << >>, Strs(<< "chest pain" >>) }]

\* faulty variant: the handle a call has just loaded is not handed out
getZeroShotClassifier_coldNull(handle, loads) ==
  [classifier |-> handle # "null",
   handle |-> IF handle # "null" \/ loads THEN "pipeline" ELSE "null"]

\* getZeroShotClassifier, lines 12-25, when pipeline() always loads or always
\* fails: what the caller gets and what the module keeps
getZeroShotClassifier(handle, loads) ==
  IF handle # "null" THEN [classifier |-> TRUE, handle |-> handle]
  ELSE IF loads THEN [classifier |-> TRUE, handle |-> "pipeline"]
  ELSE [classifier |-> FALSE, handle |-> "null"]

\* collaborators that answer the same call the same way every time
Collaborators ==
  [analysis : GenerationOutcomes(
                { "{\"possibleConditions\":[\"Tension headache\"],\"urgencyLevel\":\"LOW\",\"recommendations\":[\"Rest and hydrate\"],\"riskScore\":2,\"emergencyFlags\":[]}",
                  "Take it easy and drink water",
                  "{\"possibleConditions\":[\"Sepsis\"],\"urgencyLevel\":\"critical\"}" }),
   emergency : GenerationOutcomes(
                { "{\"isEmergency\": false, \"emergencyType\": \"\", \"message\": \"No emergency detected\"}",
                  "I cannot assess this" }),
   loads : BOOLEAN,
   urgency : ClassifierOutcomes(UrgencyResults),
   recommendations : ClassifierOutcomes(RecommendationResults),
   validation : ClassifierOutcomes(EmergencyResults)]

\* analyzeSymptoms from the settled generation call to its return
RECURSIVE analyzeRun(_, _, _, _)
analyzeRun(a, symptoms, classifier, env) ==
  IF a.pc = "settled" THEN a
  ELSE analyzeRun(analyzeClassified(a, symptoms, classifier,
                                    IF a.pc = "classifyRecommendations"
                                    THEN env.recommendations ELSE env.urgency),
                  symptoms, classifier, env)

\* detectEmergency likewise
RECURSIVE detectRun(_, _, _, _)
detectRun(e, language, classifier, env) ==
  IF e.pc = "settled" THEN e
  ELSE detectRun(detectClassified(e, language, classifier, env.validation),
                 language, classifier, env)

\* the answer of the handler for the two settled tasks when the database
\* stores what it is given
answer(a, e, keywords) ==
  buildResponse(routeAnalysis(a), routeEmergency(e),
                finalUrgency(routeAnalysis(a), routeEmergency(e), keywords), NoRow)

\* one whole invocation with the module starting at handle
invoke(b, handle, env) ==
  With(getZeroShotClassifier(handle, env.loads),
       LAMBDA got :
         [handle |-> got.handle,
          response |->
            answer(analyzeRun(analyzeGenerated(analyzeStart(TRUE), env.analysis),
                              b.symptoms, got.classifier, env),
                   detectRun(detectGenerated(detectStart(TRUE, b.language), env.emergency),
                             b.language, got.classifier, env),
                   callContainsEmergencyKeywords(b.symptoms, b.language).value)])

\* the calls: the matcher on texts and language tags, the direct parse on
\* serialised records, the validator on what getZeroShotClassifier and the
\* classifier give it, the handler on well-formed English requests
LibCalls ==
  { [fn |-> "containsEmergencyKeywords", text |-> text, language |-> language] :
      text \in { b.symptoms : b \in Bodies }
                \cup { "EMERGENCY: he is Unconscious", "Urgent", "stroke",
                       "fever and cough", "জরুরি" },
      language \in { "EN", "BN", "FR", "ES", "en", "bn", "" } }
  \cup { [fn |-> "directParse", record |-> r] : r \in WellFormedRecords }
  \cup { [fn |-> "validateEmergencyDetection", classifier |-> c, outcome |-> o] :
           c \in BOOLEAN, o \in ClassifierOutcomes(EmergencyResults) }
  \cup { [fn |-> "POST", body |-> b, env |-> env] :
           b \in { x \in Bodies : ValidBody(x) /\ x.language = "EN" },
           env \in Collaborators }

LibInit ==
  /\ apiKey = TRUE
  /\ zeroShotClassifier = "null"
  /\ rpc = "call"
  /\ body \in LibCalls
  /\ hasEmergencyKeywords = FALSE
  /\ task = [t \in Tasks |-> IF t = "analyzeSymptoms" THEN IdleAnalyze ELSE IdleDetect]
  /\ consultation = NoRow
  /\ emergencyAlert = NoRow
  /\ response = NoResponse

MatcherReturns ==
  /\ rpc = "call"
  /\ body.fn = "containsEmergencyKeywords"
  /\ response' = callContainsEmergencyKeywords(body.text, body.language)
  /\ rpc' = "return"
  /\ UNCHANGED << apiKey, zeroShotClassifier, body, hasEmergencyKeywords, task,
                  consultation, emergencyAlert >>

\* the direct parse of the extractor on the serialised record
DirectParseReturns ==
  /\ rpc = "call"
  /\ body.fn = "directParse"
  /\ response' = directParse(stringifyAnalysis(body.record))
  /\ rpc' = "return"
  /\ UNCHANGED << apiKey, zeroShotClassifier, body, hasEmergencyKeywords, task,
                  consultation, emergencyAlert >>

ValidatorReturns ==
  /\ rpc = "call"
  /\ body.fn = "validateEmergencyDetection"
  /\ response' = [value |-> validateEmergencyDetection(body.classifier, body.outcome)]
  /\ rpc' = "return"
  /\ UNCHANGED << apiKey, zeroShotClassifier, body, hasEmergencyKeywords, task,
                  consultation, emergencyAlert >>

\* the same request twice in one process: the first invocation finds no
\* handle, the second finds what the first left
InvokedTwice ==
  /\ rpc = "call"
  /\ body.fn = "POST"
  /\ response' =
       With(invoke(body.body, "null", body.env),
            LAMBDA first : [first |-> first.response,
                            handle |-> first.handle,
                            second |-> invoke(body.body, first.handle, body.env).response])
  /\ rpc' = "return"
  /\ UNCHANGED << apiKey, zeroShotClassifier, body, hasEmergencyKeywords, task,
                  consultation, emergencyAlert >>

LibNext ==
  \/ MatcherReturns
  \/ DirectParseReturns
  \/ ValidatorReturns
  \/ InvokedTwice

LibSpec == LibInit /\ [][LibNext]_vars

\* ------------------------------------------------------------------ properties
Analyze == task["analyzeSymptoms"]
Detect == task["detectEmergency"]

\* the handler answered with a triage outcome
Responded == rpc = "done" /\ response.status = 201

UrgencyOrder == << "LOW", "MEDIUM", "HIGH", "EMERGENCY" >>
RankOf(level) == CHOOSE i \in 1..Len(UrgencyOrder) : UrgencyOrder[i] = level

\* C1: in every outcome the pipeline returns, is_emergency = true implies
\* that the returned urgency level is EMERGENCY
C1_EscalationInvariant ==
  Responded /\ response.emergency.isEmergency
    => response.analysis.urgencyLevel = "EMERGENCY"

\* the assessment alone (no lexical match, analysis below EMERGENCY) escalated
C1_Witness ==
  /\ Responded
  /\ ~hasEmergencyKeywords
  /\ Detect.value.isEmergency
  /\ Analyze.value.urgencyLevel = "LOW"
  /\ response.emergency.isEmergency
  /\ response.analysis.urgencyLevel = "EMERGENCY"

\* C2: for a well-formed request, whatever the collaborators do,
\* analyzeSymptoms and detectEmergency settle fulfilled with a record, and the
\* handler never answers with an error that handleAIError raised
C2_TotalityUnderFailure ==
  /\ \A t \in Tasks : task[t].status # "rejected"
  /\ \A t \in Tasks : task[t].pc = "settled" => task[t].status = "fulfilled"
  /\ Analyze.pc = "settled" => Analyze.value.urgencyLevel \in DOMAIN priorityOrder
  /\ Detect.pc = "settled" => Detect.value.isEmergency \in BOOLEAN
  /\ response.thrown # "AIError"

\* both generation calls threw, the classifier never loaded, both fulfilled
C2_Witness ==
  /\ ValidBody(body)
  /\ \A t \in Tasks : /\ task[t].generation = "failed"
                      /\ task[t].validator = "unavailable"
                      /\ task[t].status = "fulfilled"
  /\ Responded

ChestPain == [symptoms |-> "I have chest pain and difficulty breathing", language |-> "EN"]

\* C3: when the lexical matcher fires on the narrative, as it does on "I have
\* chest pain and difficulty breathing" (EN), the outcome has is_emergency =
\* true and urgency EMERGENCY, whatever the collaborators do
C3_LexicalMatchSuffices ==
  Responded /\ (hasEmergencyKeywords \/ body = ChestPain)
    => /\ response.emergency.isEmergency
       /\ response.analysis.urgencyLevel = "EMERGENCY"

\* the scenario: both collaborators unavailable
C3_Witness ==
  /\ Responded
  /\ body = ChestPain
  /\ \A t \in Tasks : task[t].generation = "failed" /\ task[t].validator = "unavailable"
  /\ ~Detect.value.isEmergency
  /\ response.emergency.isEmergency
  /\ response.analysis.urgencyLevel = "EMERGENCY"

\* free text: JSON.parse throws on it and no labelled section is found in it
FreeText(text) ==
  /\ ~JSONparse(text).ok
  /\ firstSection(text, toLowerCase(text), conditionPatterns, 1) = ""
  /\ firstSection(text, toLowerCase(text), recommendationPatterns, 1) = ""

\* C4: generation returns free text without labelled sections, the classifier
\* is available and votes LOW, no lexical match: the extractor record carries
\* the sentinel condition and urgency MEDIUM, and the final urgency is MEDIUM
C4_BaselineWinsOverLowVote ==
  /\ Responded
  /\ ~hasEmergencyKeywords
  /\ Analyze.generation = "ok"
  /\ Analyze.strategy = "pattern"
  /\ Analyze.validator = "voted"
  /\ Analyze.enhanced = "LOW"
  /\ FreeText(Analyze.text)
  => /\ Analyze.analysis.possibleConditions
          \in {Strs(<< "Common illness" >>), Strs(<< "Analysis pending" >>)}
     /\ Analyze.analysis.urgencyLevel = "MEDIUM"
     /\ response.analysis.urgencyLevel = "MEDIUM"

\* C5: the risk score of every record analyzeSymptoms builds or returns, of
\* the stored default and of every final outcome is within 0..10 (in tenths)
C5_RiskScoreBound ==
  /\ Analyze.strategy # "" => Analyze.analysis.riskScore \in 0..100
  /\ Analyze.pc = "settled" => Analyze.value.riskScore \in 0..100
  /\ Responded => response.analysis.riskScore \in 0..100

\* a parsed score of 15 came out as 10
C5_Witness ==
  /\ Responded
  /\ Analyze.strategy = "direct"
  /\ Get(JSONparse(Analyze.text).v, "riskScore") = JNum(150)
  /\ response.analysis.riskScore = 100

\* C6: possible_conditions and recommendations of an outcome are never empty
C6_NeverEmptyLists ==
  Responded => /\ Len(response.analysis.possibleConditions) > 0
               /\ Len(response.analysis.recommendations) > 0

\* C7: the urgency analyzeSymptoms returns is the higher, in the order
\* LOW < MEDIUM < HIGH < EMERGENCY, of the extractor's and the validator's
C7_SeverityMaximizingMerge ==
  Analyze.validator # ""
    => /\ Analyze.final \in {Analyze.analysis.urgencyLevel, Analyze.enhanced}
       /\ RankOf(Analyze.final) >= RankOf(Analyze.analysis.urgencyLevel)
       /\ RankOf(Analyze.final) >= RankOf(Analyze.enhanced)
       /\ Analyze.pc = "settled" => Analyze.value.urgencyLevel = Analyze.final

\* both directions: the validator raised a LOW record, or a HIGH record stood
C7_Witness ==
  /\ Analyze.pc = "settled"
  /\ Analyze.validator = "voted"
  /\ Analyze.analysis.urgencyLevel = "LOW"
  /\ Analyze.enhanced = "HIGH"
  /\ Analyze.value.urgencyLevel = "HIGH"

\* C8: an unavailable classifier casts no vote: the urgency analyzeSymptoms
\* returns is the extractor's
C8_UnavailableCastsNoVote ==
  Analyze.pc = "settled" /\ Analyze.validator = "unavailable"
    => Analyze.value.urgencyLevel = Analyze.analysis.urgencyLevel

\* the run with both collaborators available and benign: the generation
\* returns a LOW analysis and "no emergency", the classifier ranks the low
\* urgency label and the non-emergency label first
BenignAnalysisText ==
  "{\"possibleConditions\":[\"Tension headache\"],\"urgencyLevel\":\"LOW\",\"recommendations\":[\"Rest and hydrate\"],\"riskScore\":2,\"emergencyFlags\":[]}"
BenignEmergencyText ==
  "{\"isEmergency\": false, \"emergencyType\": \"\", \"message\": \"No emergency detected\"}"
BenignUrgencyVote ==
  [threw |-> FALSE, result |-> CHOOSE r \in UrgencyResults : r[1].label = urgencyLabels[1]]
BenignEmergencyVote ==
  [threw |-> FALSE, result |-> CHOOSE r \in EmergencyResults : r[1].label = emergencyLabels[2]]

BaselineAnalysis ==
  analyzeClassified(analyzeGenerated(analyzeStart(TRUE),
                                     [threw |-> FALSE, text |-> BenignAnalysisText]),
                    "", TRUE, BenignUrgencyVote).value

BaselineEmergency(language) ==
  detectClassified(detectGenerated(detectStart(TRUE, language),
                                   [threw |-> FALSE, text |-> BenignEmergencyText]),
                   language, TRUE, BenignEmergencyVote).value

BaselineUrgency(language, keywords) ==
  finalUrgency(BaselineAnalysis, BaselineEmergency(language), keywords)

\* some collaborator was unavailable in this run
SignalLost ==
  \E t \in Tasks : task[t].generation \in {"failed", "nokey"}
                   \/ task[t].validator = "unavailable"

\* C9: with a collaborator unavailable the final urgency is never below the
\* one computed, for the same narrative and language, with both collaborators
\* available and benign
C9_MonotoneUnderSignalLoss ==
  Responded /\ SignalLost
    => RankOf(response.analysis.urgencyLevel)
         >= RankOf(BaselineUrgency(body.language, hasEmergencyKeywords))

\* the generative assessment's own flag
GenerativeFlag == Get(Detect.parsed, "isEmergency") = JBool(TRUE)

\* C10 as stated: is_emergency is true exactly when the lexical matcher fired,
\* the validator voted emergency, or the extractor's urgency is EMERGENCY
C10_OrOfThreeSignals ==
  Responded
    => (response.emergency.isEmergency
          <=> \/ hasEmergencyKeywords
              \/ Detect.validated
              \/ Analyze.analysis.urgencyLevel = "EMERGENCY")

\* C10 amended: is_emergency is true exactly when the lexical matcher fired,
\* the validator voted emergency, the generative assessment flagged an
\* emergency, or the extractor's or the validator's urgency is EMERGENCY
C10_OrOfSignals ==
  Responded
    => (response.emergency.isEmergency
          <=> \/ hasEmergencyKeywords
              \/ Detect.validated
              \/ GenerativeFlag
              \/ Analyze.analysis.urgencyLevel = "EMERGENCY"
              \/ Analyze.enhanced = "EMERGENCY")

\* the generative flag alone made the outcome an emergency
C10_Witness ==
  /\ Responded
  /\ ~hasEmergencyKeywords
  /\ ~Detect.validated
  /\ GenerativeFlag
  /\ Analyze.value.urgencyLevel # "EMERGENCY"
  /\ response.emergency.isEmergency

\* the request is not well formed: empty symptoms or an unsupported language
Malformed == rpc # "idle" /\ (body.symptoms = "" \/ body.language \notin {"EN", "BN"})

\* C11: a request with empty symptoms or a language outside {EN, BN} ends in
\* an error outcome; in that run no generation call and no classifier call is
\* made and no consultation or alert row is created
C11_InvalidInputRejected ==
  Malformed
    => /\ rpc = "done"
       /\ response.status >= 400
       /\ \A t \in Tasks : /\ task[t].pc = "idle"
                           /\ task[t].generation = ""
                           /\ task[t].validator = ""
                           /\ ~task[t].loading
       /\ consultation = NoRow
       /\ emergencyAlert = NoRow

\* an unsupported language tag was answered with an error
C11_Witness ==
  /\ Malformed
  /\ body.symptoms # ""
  /\ body.language = "FR"
  /\ response.status = 500

\* C12: a generation or classification call that never answers is abandoned
\* on a timeout, so every invocation eventually returns an outcome: a request
\* that has not been answered yet can always take a further step
C12_EveryInvocationReturns == rpc \in {"settling", "alert"} => ENABLED HangNext

\* C13: the lexical matcher fails closed: for any text and any language tag
\* outside the supported set it returns false and does not raise
C13_MatcherFailsClosed ==
  /\ rpc = "return"
  /\ body.fn = "containsEmergencyKeywords"
  /\ body.language \notin {"EN", "BN"}
  => /\ ~response.threw
     /\ response.value = FALSE

\* the extractor has produced its record from the generated text
Extracted == Analyze.strategy # ""

\* structured output that lacks the recommendations and names an urgency
\* outside the enumeration
CriticalToken == "{\"possibleConditions\":[\"Sepsis\"],\"urgencyLevel\":\"critical\"}"

\* C14: an urgency token of structured output that is outside LOW, MEDIUM,
\* HIGH, EMERGENCY, such as "critical", is not dropped and not turned into
\* LOW: the extractor record's urgency is MEDIUM
C14_UrgencyNormalization ==
  Extracted /\ Analyze.text = CriticalToken => Analyze.analysis.urgencyLevel = "MEDIUM"

\* C15: every record the extractor returns and every outcome the handler
\* returns lists at most 5 possible conditions and at most 3 recommendations
C15_LengthCaps ==
  /\ Extracted => /\ Len(Analyze.analysis.possibleConditions) <= 5
                  /\ Len(Analyze.analysis.recommendations) <= 3
  /\ Responded => /\ Len(response.analysis.possibleConditions) <= 5
                  /\ Len(response.analysis.recommendations) <= 3

\* C16: for every well-formed record r (urgency of the enumeration, a score
\* from 0 to 10, list-valued fields) the direct parse of the serialised r is
\* accepted and returns a record equal to r in all five fields
C16_ExtractorRoundTrip ==
  rpc = "return" /\ body.fn = "directParse"
    => /\ response.ok
       /\ response.rec.possibleConditions = body.record.possibleConditions
       /\ response.rec.urgencyLevel = body.record.urgencyLevel
       /\ response.rec.recommendations = body.record.recommendations
       /\ response.rec.riskScore = body.record.riskScore
       /\ response.rec.emergencyFlags = body.record.emergencyFlags

\* a record with a fractional score, two conditions, a flag and no
\* recommendation came back
C16_Witness ==
  /\ rpc = "return"
  /\ body.fn = "directParse"
  /\ body.record.riskScore = 85
  /\ Len(body.record.possibleConditions) = 2
  /\ body.record.recommendations = << >>
  /\ Len(body.record.emergencyFlags) = 1
  /\ response.ok
  /\ response.rec = body.record

\* C17: with collaborators that answer the same call the same way every
\* time, two invocations with the same body return the same outcome, whether
\* the classifier handle was still to be loaded or already cached
C17_Determinism ==
  rpc = "return" /\ body.fn = "POST" => response.first = response.second

\* the first invocation loaded the classifier, the second found it cached,
\* and the classifier voted
C17_Witness ==
  /\ rpc = "return"
  /\ body.fn = "POST"
  /\ body.env.loads
  /\ ~body.env.validation.threw
  /\ ~body.env.urgency.threw
  /\ response.handle = "pipeline"
  /\ response.first.status = 201
  /\ response.first.analysis.urgencyLevel = "EMERGENCY"
  /\ response.first = response.second

\* C18: for every request that completes, an alert row exists exactly when
\* the returned is_emergency is true, and the row is tied to the consultation
\* of this request and carries the user's stored latitude and longitude
C18_AlertFollowsFlag ==
  Responded
    => /\ (emergencyAlert # NoRow) = response.emergency.isEmergency
       /\ emergencyAlert # NoRow
            => /\ emergencyAlert.consultationId = consultation.id
               /\ emergencyAlert.latitude = consultation.user.latitude
               /\ emergencyAlert.longitude = consultation.user.longitude

\* C19: the message of an outcome is selected by (is_emergency, language):
\* outcomes with the same flag and the same language carry the same message,
\* so every outcome carries the one the unparsable-output path returns for its
\* flag and language
C19_MessageByFlagAndLanguage ==
  Responded
    => response.emergency.message
         = detectFallbackRecord(response.emergency.isEmergency, body.language).message

\* C20: with the classifier available and answering, validateEmergencyDetection
\* returns true when the top-ranked label is the emergency label and false
\* when it is the non-emergency label
C20_ValidatorCanRefute ==
  /\ rpc = "return"
  /\ body.fn = "validateEmergencyDetection"
  /\ body.classifier
  /\ ~body.outcome.threw
  => response.value = (body.outcome.result[1].label = emergencyLabels[1])

\* C21: in every interleaving of concurrent callers the classification
\* pipeline is constructed at most once per process: while one caller's
\* pipeline() is in flight no second construction is begun
C21_SingleInitialization == ~(Analyze.loading /\ Detect.loading)

\* the extractor of this invocation asked for the classifier handle and the
\* load failed: it returned its default record and no load of the process has
\* succeeded
LoadFailedInExtractor == zeroShotClassifier = "null" /\ Analyze.strategy = "default"

\* C22: once obtaining the classifier handle has failed during an invocation,
\* the invocation does not attempt it again: no further pipeline() call is
\* begun by analyzeSymptoms
C22_NoRetryInsideInvocation == ~(LoadFailedInExtractor /\ Analyze.loading)

\* C23: in every interleaving, the consultation row, the alert row and the
\* triage answer exist only when both analyzeSymptoms and detectEmergency have
\* settled; nothing is decided or stored while either is in flight
C23_ArbitrationWaits ==
  \/ consultation # NoRow
  \/ emergencyAlert # NoRow
  \/ rpc = "alert"
  \/ response.status = 201
  \/ response.thrown \in {"AIError", "PrismaError"}
  => \A t \in Tasks : task[t].pc = "settled" /\ task[t].status # "pending"

\* both rows were stored after one generation call had failed and the other
\* had answered
C23_Witness ==
  /\ Responded
  /\ consultation # NoRow
  /\ emergencyAlert # NoRow
  /\ Analyze.generation = "failed"
  /\ Detect.generation = "ok"
  /\ \A t \in Tasks : task[t].pc = "settled"

\* C24: when the direct parse of a non-empty generated text fails, the
\* extractor returns what pattern extraction finds in the text (labelled
\* section, else vocabulary scan, else the sentinel condition), whether or not
\* the classifier is available
C24_StrategyChainOrder ==
  Extracted /\ Analyze.text # "" /\ Analyze.strategy # "direct"
    => /\ Analyze.analysis.possibleConditions = Strs(extractPossibleConditions(Analyze.text))
       /\ Analyze.analysis.recommendations = Strs(extractRecommendations(Analyze.text))

\* C25: when the generated text is empty the extractor returns exactly the
\* fixed default record (one sentinel condition, MEDIUM, one generic
\* recommendation, score 5, no flags), whatever the classifier votes
C25_DefaultRecordOnEmptyText ==
  Extracted /\ Analyze.generation = "ok" /\ Analyze.text = ""
    => Analyze.analysis = extractorFallback

\* the extractor's recommendations are empty or only the generic sentinel
OnlySentinel(recommendations) ==
  recommendations \in { << >>, Strs(<< "Consult healthcare provider" >>) }

\* C26: the extractor's recommendations are replaced by the classifier's vote
\* only when they are empty or consist solely of the generic sentinel;
\* otherwise analyzeSymptoms returns them unchanged
C26_ConditionalReplacement ==
  Analyze.pc = "settled" /\ Analyze.strategy # "" /\ ~OnlySentinel(Analyze.analysis.recommendations)
    => Analyze.value.recommendations = Analyze.analysis.recommendations

\* C27: merging and escalation change only the urgency level and the
\* recommendations: in every outcome built from an extractor record the
\* possible conditions, the risk score and the emergency flags are those of the
\* extractor record
C27_ArbitrationFrame ==
  Responded /\ Extracted
    => /\ response.analysis.possibleConditions = Analyze.analysis.possibleConditions
       /\ response.analysis.riskScore = Analyze.analysis.riskScore
       /\ response.analysis.emergencyFlags = Analyze.analysis.emergencyFlags

\* the urgency was escalated from LOW to EMERGENCY and the score stayed 2
C27_Witness ==
  /\ Responded
  /\ Extracted
  /\ Analyze.analysis.urgencyLevel = "LOW"
  /\ Analyze.analysis.riskScore = 20
  /\ response.analysis.urgencyLevel = "EMERGENCY"
  /\ response.analysis.riskScore = 20

\* C28: in every response of the route, a returned urgency of EMERGENCY
\* comes with is_emergency true, an alert row and a consultation stored with
\* status EMERGENCY; a returned urgency below EMERGENCY comes with
\* is_emergency false, no alert row and status PENDING
C28_EmergencyConverse ==
  Responded
    => IF response.analysis.urgencyLevel = "EMERGENCY"
       THEN /\ response.emergency.isEmergency
            /\ emergencyAlert # NoRow
            /\ consultation.status = "EMERGENCY"
       ELSE /\ ~response.emergency.isEmergency
            /\ emergencyAlert = NoRow
            /\ consultation.status = "PENDING"

\* the lexical match alone made the outcome an emergency
C28_Witness ==
  /\ Responded
  /\ hasEmergencyKeywords
  /\ ~Detect.value.isEmergency
  /\ response.analysis.urgencyLevel = "EMERGENCY"
  /\ response.emergency.isEmergency
  /\ emergencyAlert # NoRow
  /\ emergencyAlert.emergencyType = "OTHER"
  /\ consultation.status = "EMERGENCY"

\* C29: the consultation row is stored before the alert is attempted, and when
\* prisma.emergencyAlert.create fails the request ends in an error response
\* while the row, with status EMERGENCY, stays stored and no alert row exists
C29_NoRollbackOnAlertFailure ==
  [][(rpc = "alert" /\ rpc' = "done")
       => /\ consultation # NoRow
          /\ consultation.status = "EMERGENCY"
          /\ emergencyAlert = NoRow
          /\ emergencyAlert' = NoRow
               => /\ response'.status = 500
                  /\ response'.thrown = "PrismaError"
                  /\ consultation' = consultation]_vars

\* the alert could not be created: the row is there, the alert is not
C29_Witness ==
  /\ rpc = "done"
  /\ response.status = 500
  /\ response.thrown = "PrismaError"
  /\ consultation # NoRow
  /\ consultation.status = "EMERGENCY"
  /\ emergencyAlert = NoRow

\* C30: when GEMINI_API_KEY is not configured, analyzeSymptoms and
\* detectEmergency settle with their fixed fallbacks (urgency MEDIUM, isEmergency
\* false) without a generation call or a classifier call, so the returned
\* urgency is EMERGENCY exactly when the lexical matcher fired and MEDIUM
\* otherwise
C30_MissingKeyShortCircuits ==
  ~apiKey
    => /\ zeroShotClassifier = "null"
       /\ \A t \in Tasks :
            /\ task[t].pc \in {"idle", "settled"}
            /\ ~task[t].loading
            /\ task[t].validator = ""
            /\ task[t].pc = "settled" => task[t].generation = "nokey"
       /\ allSettled
            => /\ Analyze = Settle([IdleAnalyze EXCEPT !.generation = "nokey"],
                                   analyzeSymptomsCatch)
               /\ Analyze.value.urgencyLevel = "MEDIUM"
               /\ Detect.status = "fulfilled"
               /\ ~Detect.value.isEmergency
       /\ Responded
            => response.analysis.urgencyLevel =
                 IF hasEmergencyKeywords THEN "EMERGENCY" ELSE "MEDIUM"

\* a response made without the key and without a lexical match
C30_Witness ==
  /\ ~apiKey
  /\ Responded
  /\ ~hasEmergencyKeywords
  /\ Analyze.generation = "nokey"
  /\ Detect.generation = "nokey"
  /\ response.analysis.urgencyLevel = "MEDIUM"
  /\ ~response.emergency.isEmergency

====
